---- MODULE Spec2Model ----
(***************************************************************************)
(* A model of gmh (src/src/main.rs): read the staged diff, ask a chat      *)
(* completion endpoint for a commit message, show it, read one line from   *)
(* standard input and, on "y", run git commit -m <message>.                *)
(*                                                                         *)
(* Texts are sequences of code points (121 is 'y', 89 is 'Y', 32 is a      *)
(* space, 10 is a line feed), bytes are numbers 0..255.                    *)
(***************************************************************************)
EXTENDS Integers, Sequences, FiniteSets, TLC

VARIABLES
    marker,          \* whether ./.git exists (is_git_repository, line 127)
    env,             \* OPENAI_API_KEY of the process environment (line 71)
    dotfile,         \* OPENAI_API_KEY of the .env file read by dotenv (line 138)
    pc,              \* the statement of main that runs next
    diffOut,         \* what the `git diff --cached` process did (lines 57-61)
    diff,            \* main's diff (line 141)
    response,        \* what the HTTPS exchange gave (lines 92-101)
    commit_message,  \* main's commit_message (line 155)
    stdin,           \* what is waiting on standard input when it is read
    input,           \* the outcome of read_line: Ok(line) or Err (line 167)
    commitOut,       \* what the `git commit -m` process did (lines 112-117)
    gitCalls,        \* the invocations of git so far, in order
    netCalls,        \* the HTTPS requests sent so far, in order
    stdinReads,      \* the number of read_line calls so far
    out,             \* the lines written to stdout and stderr, in order
    exit,            \* <<>> while the process runs, then <<its exit code>>
    log              \* the steps of main executed so far, in order

vars == <<marker, env, dotfile, pc, diffOut, diff, response, commit_message,
          stdin, input, commitOut, gitCalls, netCalls, stdinReads, out, exit, log>>

(***************************************************************************)
(* Bounds of the model.                                                    *)
(***************************************************************************)
MaxInputLen == 3
MaxDiffLen == 1
MaxChoices == 2

(***************************************************************************)
(* Small input alphabets.                                                  *)
(***************************************************************************)
SeqsUpTo(S, n) == UNION {[1..k -> S] : k \in 0..n}

\* characters typed on standard input: Y y n space line-feed
InputChars == {89, 121, 110, 32, 10}
\* "yes" and "Yes "
ExampleInputs == {<<121, 101, 115>>, <<89, 101, 115, 32>>}
StdinContents == SeqsUpTo(InputChars, MaxInputLen) \cup ExampleInputs

\* bytes git writes: '+', a space, and 0xFF (never valid in UTF-8)
Bytes == {43, 32, 255}
ByteSeqs == SeqsUpTo(Bytes, MaxDiffLen)
\* what git writes on its standard error when it fails: nothing, or "f"
StderrTexts == {<<>>, <<102>>}
\* exit codes of a git process; -1 stands for "killed by a signal" (no code)
ExitCodes == {0, 1, 128, -1}
\* io::Error descriptions of a failed launch ("ENOENT")
OsErrors == {<<69, 78, 79, 69, 78, 84>>}
\* descriptions of reqwest errors: send failure "s", body/JSON failure "j"
SendErrors == {<<115>>}
JsonErrors == {<<106>>}
\* candidate contents: empty, " F\n" (whitespace and upper case), "y"
Contents == {<<>>, <<32, 70, 10>>, <<121>>}
ChoiceLists == SeqsUpTo({[role |-> "assistant", content |-> c] : c \in Contents}, MaxChoices)

NotPresent == "NotPresent"
EnvValues == {NotPresent, "sk-env"}
DotfileValues == {NotPresent, "sk-file"}

(***************************************************************************)
(* Literals of the program.                                                *)
(***************************************************************************)
\* "Failed to commit changes"
FAILED_TO_COMMIT == <<70, 97, 105, 108, 101, 100, 32, 116, 111, 32, 99, 111, 109, 109,
                      105, 116, 32, 99, 104, 97, 110, 103, 101, 115>>
\* "No response from DeepSeek"
NO_RESPONSE == <<78, 111, 32, 114, 101, 115, 112, 111, 110, 115, 101, 32, 102, 114,
                 111, 109, 32, 68, 101, 101, 112, 83, 101, 101, 107>>
\* "y"
Y_LITERAL == <<121>>

MSG_NOT_REPO == "Current directory is not a Git repository."
MSG_DIFF_ERR == "Error getting git diff: {}"
MSG_NO_CHANGES == "No changes detected."
MSG_GEN_ERR == "Error generating commit message: {}"
MSG_GENERATED == "Generated commit message:\n{}"
MSG_PROMPT == "Do you want to commit these changes? (y/n)"
MSG_COMMIT_ERR == "Error committing changes: {}"
MSG_COMMITTED == "Changes committed successfully."
MSG_CANCELED == "Commit canceled."
PANIC_NO_KEY == "OPENAI_API_KEY not set in .env file"
PANIC_READ == "Failed to read input"
ENDPOINT == "https://api.deepseek.com/chat/completions"
SYSTEM_PROMPT == "You are a helpful assistant to great a short git commit message"

(***************************************************************************)
(* Results and console output.                                             *)
(***************************************************************************)
Ok(v) == [ok |-> TRUE, val |-> v]
Err(e) == [ok |-> FALSE, val |-> e]

println(fmt, arg) == [stream |-> "stdout", fmt |-> fmt, arg |-> arg]
eprintln(fmt, arg) == [stream |-> "stderr", fmt |-> fmt, arg |-> arg]
\* the panic hook writes the message of a failed expect() to standard error
panic_message(msg) == [stream |-> "stderr", fmt |-> msg, arg |-> <<>>]

\* the exit code of the process: main returning () is 0, a panic is 101
exit_code_nonzero(how) == IF how = "return" THEN 1 ELSE 101
exit_code(how) == IF how = "return" THEN 0 ELSE 101

(***************************************************************************)
(* Pure functions of the program and of the library calls it makes.        *)
(***************************************************************************)
\* Path::new(".git").exists()
is_git_repository_always(m) == TRUE
is_git_repository(m) == m

\* dotenv().ok(): a variable of the .env file is set unless the process
\* environment already has it; a missing file changes nothing
dotenv(e, f) == IF e = NotPresent THEN f ELSE e

\* env::var("OPENAI_API_KEY")
env_var_or_default(e) == [ok |-> TRUE, val |-> e]
env_var(e) == [ok |-> e # NotPresent, val |-> e]

\* String::from_utf8_lossy over the byte alphabet: an ASCII byte is its own
\* character, the invalid byte 0xFF becomes U+FFFD
from_utf8_lossy(bs) == [i \in 1..Len(bs) |-> IF bs[i] < 128 THEN bs[i] ELSE 65533]

\* ExitStatus::success()
success(code) == code = 0

\* the child process that could not be launched, and the one that ran
NoProcess == [ran |-> FALSE, launched |-> FALSE, oserr |-> <<>>, code |-> 0,
              stdout |-> <<>>, stderr |-> <<>>]
LaunchFailure(e) == [ran |-> TRUE, launched |-> FALSE, oserr |-> e, code |-> 0,
                     stdout |-> <<>>, stderr |-> <<>>]
Exited(c, so, se) == [ran |-> TRUE, launched |-> TRUE, oserr |-> <<>>, code |-> c,
                      stdout |-> so, stderr |-> se]

\* get_git_diff, given what `git diff --cached` did
get_git_diff_ignoring_status(o) ==
    IF ~o.launched THEN Err(o.oserr) ELSE Ok(from_utf8_lossy(o.stdout))
get_git_diff(o) ==
    IF ~o.launched THEN Err(o.oserr)
    ELSE IF success(o.code) THEN Ok(from_utf8_lossy(o.stdout))
    ELSE Err(from_utf8_lossy(o.stderr))

\* str::is_empty on the diff
is_empty_trimmed(s) == \A i \in 1..Len(s) : s[i] \in {9, 10, 11, 12, 13, 32}
is_empty(s) == Len(s) = 0

\* the request body built by generate_commit_message
DeepSeekRequest(d) ==
    [model |-> "deepseek-chat",
     messages |-> << [role |-> "system", content |-> <<>>, fixed |-> SYSTEM_PROMPT],
                     [role |-> "user", content |-> d, fixed |-> ""] >>,
     stream |-> FALSE]

\* what the provider did: nothing yet, a send error, a body that does not
\* parse, or a parsed DeepSeekResponse with its choices
NoResponseYet == [kind |-> "none", err |-> <<>>, choices |-> <<>>]
SendFailed(e) == [kind |-> "send", err |-> e, choices |-> <<>>]
JsonFailed(e) == [kind |-> "json", err |-> e, choices |-> <<>>]
Parsed(cs) == [kind |-> "ok", err |-> <<>>, choices |-> cs]
Responses == {SendFailed(e) : e \in SendErrors} \cup {JsonFailed(e) : e \in JsonErrors}
             \cup {Parsed(cs) : cs \in ChoiceLists}

\* Vec::first on a non-empty list
last_choice(cs) == cs[Len(cs)]
first(cs) == cs[1]

\* the tail of generate_commit_message: `?` on send and json, then the
\* first choice or the "no response" error
response_result_or_default(r) ==
    IF r.kind # "ok" THEN Err(r.err)
    ELSE IF Len(r.choices) > 0 THEN Ok(first(r.choices).content)
    ELSE Ok(<<>>)
response_result(r) ==
    IF r.kind # "ok" THEN Err(r.err)
    ELSE IF Len(r.choices) > 0 THEN Ok(first(r.choices).content)
    ELSE Err(NO_RESPONSE)

\* Stdin::read_line: appends everything up to and including the first line
\* feed; at end of input it returns what is there (possibly nothing)
RECURSIVE read_line(_)
read_line(s) ==
    IF s = <<>> THEN <<>>
    ELSE IF Head(s) = 10 THEN <<10>>
    ELSE <<Head(s)>> \o read_line(Tail(s))

\* char::is_whitespace (the Unicode White_Space property)
is_whitespace(c) ==
    \/ c \in {9, 10, 11, 12, 13, 32, 133, 160, 5760, 8232, 8233, 8239, 8287, 12288}
    \/ c \in 8192..8202

\* str::trim
RECURSIVE trim_start(_)
trim_start(s) ==
    IF s = <<>> THEN s
    ELSE IF is_whitespace(Head(s)) THEN trim_start(Tail(s)) ELSE s
RECURSIVE trim_end(_)
trim_end(s) ==
    IF s = <<>> THEN s
    ELSE IF is_whitespace(s[Len(s)]) THEN trim_end(SubSeq(s, 1, Len(s) - 1)) ELSE s
trim(s) == trim_end(trim_start(s))

\* str::to_lowercase over the input alphabet (ASCII letters)
to_lowercase_identity(s) == s
to_lowercase(s) == [i \in 1..Len(s) |-> IF s[i] \in 65..90 THEN s[i] + 32 ELSE s[i]]

\* input.trim().to_lowercase() == "y"
confirmed_starts_with(line) ==
    LET t == to_lowercase(trim(line)) IN Len(t) > 0 /\ t[1] = 121
confirmed(line) == to_lowercase(trim(line)) = Y_LITERAL

\* commit_changes, given what `git commit -m <message>` did
commit_changes_ignoring_status(o) ==
    IF ~o.launched THEN Err(o.oserr) ELSE Ok(<<>>)
commit_changes(o) ==
    IF ~o.launched THEN Err(o.oserr)
    ELSE IF success(o.code) THEN Ok(<<>>)
    ELSE Err(FAILED_TO_COMMIT)

\* the two invocations of the version-control tool
GitDiffCall == [prog |-> "git", args |-> <<"diff", "--cached">>, msgArgs |-> <<>>]
GitCommitCall(m) == [prog |-> "git", args |-> <<"commit", "-m">>, msgArgs |-> <<m>>]

(***************************************************************************)
(* The state after the process has started, before main's first statement. *)
(* marker, env and dotfile are the surroundings: whether ./.git exists,    *)
(* OPENAI_API_KEY of the process environment and of the .env file.         *)
(***************************************************************************)
Init ==
    /\ marker \in BOOLEAN
    /\ env \in EnvValues
    /\ dotfile \in DotfileValues
    /\ pc = "check_repo"
    /\ diffOut = NoProcess
    /\ diff = <<>>
    /\ response = NoResponseYet
    /\ commit_message = <<>>
    /\ stdin = <<>>
    /\ input = Err(<<>>)
    /\ commitOut = NoProcess
    /\ gitCalls = <<>>
    /\ netCalls = <<>>
    /\ stdinReads = 0
    /\ out = <<>>
    /\ exit = <<>>
    /\ log = <<>>

\* main ends: by `return` or by falling off its end, or by a panic
Terminate(lines, how) ==
    /\ out' = out \o lines
    /\ exit' = <<exit_code(how)>>
    /\ pc' = "done"

\* main, lines 133-136
CheckRepo ==
    /\ pc = "check_repo"
    /\ log' = Append(log, "check_repo")
    /\ IF ~is_git_repository(marker)
       THEN Terminate(<<eprintln(MSG_NOT_REPO, <<>>)>>, "return")
       ELSE pc' = "dotenv" /\ UNCHANGED <<out, exit>>
    /\ UNCHANGED <<marker, env, dotfile, diffOut, diff, response, commit_message,
                   stdin, input, commitOut, gitCalls, netCalls, stdinReads>>

\* main, line 138
LoadDotenv ==
    /\ pc = "dotenv"
    /\ log' = Append(log, "dotenv")
    /\ env' = dotenv(env, dotfile)
    /\ pc' = "get_diff"
    /\ UNCHANGED <<marker, dotfile, diffOut, diff, response, commit_message,
                   stdin, input, commitOut, gitCalls, netCalls, stdinReads, out, exit>>

\* what `git diff --cached` can do
DiffOutcomes ==
    {LaunchFailure(e) : e \in OsErrors}
    \cup {Exited(0, so, <<>>) : so \in ByteSeqs}
    \cup {Exited(c, so, se) : c \in ExitCodes \ {0}, so \in {<<>>}, se \in StderrTexts}

\* main, lines 141-152, with get_git_diff
GetGitDiff ==
    /\ pc = "get_diff"
    /\ log' = Append(log, "get_diff")
    /\ gitCalls' = Append(gitCalls, GitDiffCall)
    /\ \E o \in DiffOutcomes :
         LET r == get_git_diff(o) IN
         /\ diffOut' = o
         /\ IF ~r.ok
            THEN /\ Terminate(<<eprintln(MSG_DIFF_ERR, r.val)>>, "return")
                 /\ UNCHANGED diff
            ELSE /\ diff' = r.val
                 /\ IF is_empty(r.val)
                    THEN Terminate(<<println(MSG_NO_CHANGES, <<>>)>>, "return")
                    ELSE pc' = "generate" /\ UNCHANGED <<out, exit>>
    /\ UNCHANGED <<marker, env, dotfile, response, commit_message,
                   stdin, input, commitOut, netCalls, stdinReads>>

\* main, lines 155-165, with generate_commit_message
GenerateCommitMessage ==
    /\ pc = "generate"
    /\ log' = Append(log, "generate")
    /\ LET api_key == env_var(env) IN
       IF ~api_key.ok
       THEN /\ Terminate(<<panic_message(PANIC_NO_KEY)>>, "panic")
            /\ UNCHANGED <<netCalls, response, commit_message>>
       ELSE /\ netCalls' = Append(netCalls,
                   [url |-> ENDPOINT, bearer |-> api_key.val, body |-> DeepSeekRequest(diff)])
            /\ \E resp \in Responses :
                 LET r == response_result(resp) IN
                 /\ response' = resp
                 /\ IF ~r.ok
                    THEN /\ Terminate(<<eprintln(MSG_GEN_ERR, r.val)>>, "return")
                         /\ UNCHANGED commit_message
                    ELSE /\ commit_message' = r.val
                         /\ out' = out \o <<println(MSG_GENERATED, r.val),
                                             println(MSG_PROMPT, <<>>)>>
                         /\ pc' = "confirm"
                         /\ UNCHANGED exit
    /\ UNCHANGED <<marker, env, dotfile, diffOut, diff, stdin, input, commitOut,
                   gitCalls, stdinReads>>

\* main, lines 166-169 and 175-177: read one line and decide
Confirm ==
    /\ pc = "confirm"
    /\ log' = Append(log, "read_line")
    /\ stdinReads' = stdinReads + 1
    /\ \/ \* the read fails (the bytes are not UTF-8, the descriptor is bad)
          /\ input' = Err(<<>>)
          /\ stdin' = <<>>
          /\ Terminate(<<panic_message(PANIC_READ)>>, "panic")
       \/ \E s \in StdinContents :
            /\ stdin' = s
            /\ input' = Ok(read_line(s))
            /\ IF confirmed(read_line(s))
               THEN pc' = "commit" /\ UNCHANGED <<out, exit>>
               ELSE Terminate(<<println(MSG_CANCELED, <<>>)>>, "return")
    /\ UNCHANGED <<marker, env, dotfile, diffOut, diff, response, commit_message,
                   commitOut, gitCalls, netCalls>>

\* what `git commit -m <message>` can do (its output is inherited, not captured)
CommitOutcomes ==
    {LaunchFailure(e) : e \in OsErrors} \cup {Exited(c, <<>>, <<>>) : c \in ExitCodes}

\* main, lines 170-174, with commit_changes
CommitChanges ==
    /\ pc = "commit"
    /\ log' = Append(log, "commit")
    /\ gitCalls' = Append(gitCalls, GitCommitCall(commit_message))
    /\ \E o \in CommitOutcomes :
         LET r == commit_changes(o) IN
         /\ commitOut' = o
         /\ IF ~r.ok
            THEN Terminate(<<eprintln(MSG_COMMIT_ERR, r.val)>>, "return")
            ELSE Terminate(<<println(MSG_COMMITTED, <<>>)>>, "return")
    /\ UNCHANGED <<marker, env, dotfile, diffOut, diff, response, commit_message,
                   stdin, input, netCalls, stdinReads>>

Next ==
    \/ CheckRepo
    \/ LoadDotenv
    \/ GetGitDiff
    \/ GenerateCommitMessage
    \/ Confirm
    \/ CommitChanges

Spec == Init /\ [][Next]_vars

(***************************************************************************)
(* Observations used by the properties.                                    *)
(***************************************************************************)
CommitCalls == SelectSeq(gitCalls, LAMBDA c : c.args[1] = "commit")
DiffCalls == SelectSeq(gitCalls, LAMBDA c : c.args[1] = "diff")
Printed == {out[i] : i \in 1..Len(out)}
Logged == {log[i] : i \in 1..Len(log)}
LastOut == out[Len(out)]
Done == pc = "done" /\ Len(exit) = 1

\* the steps of main in program order
StepOrder == <<"check_repo", "dotenv", "get_diff", "generate", "read_line", "commit">>
StepRank(s) == CHOOSE i \in 1..Len(StepOrder) : StepOrder[i] = s

\* a line that is "y" up to surrounding ASCII whitespace and letter case
AsciiSpace == {9, 10, 11, 12, 13, 32}
IsYLine(l) ==
    \E i \in 1..Len(l) :
        /\ l[i] \in {89, 121}
        /\ \A j \in 1..Len(l) : j # i => l[j] \in AsciiSpace

\* what the tool and the provider did
DiffSucceeded == diffOut.ran /\ diffOut.launched /\ diffOut.code = 0
DiffFailed == diffOut.ran /\ ~(diffOut.launched /\ diffOut.code = 0)
CommitSucceeded == commitOut.ran /\ commitOut.launched /\ commitOut.code = 0
CommitFailed == commitOut.ran /\ ~(commitOut.launched /\ commitOut.code = 0)
GenerationSucceeded == response.kind = "ok" /\ Len(response.choices) >= 1
\* OPENAI_API_KEY is neither in the process environment nor in the .env file
KeyAbsent == env = NotPresent /\ dotfile = NotPresent

(***************************************************************************)
(* C1. git commit is invoked at most once, and only after the repository   *)
(* check returned true, git diff --cached succeeded with a non-empty       *)
(* output, generation succeeded and the line read normalised to "y", in    *)
(* that order; on every other path there is no commit invocation, and the  *)
(* steps taken never go back to an earlier one.                            *)
(***************************************************************************)
C1_CommitOnlyOnFullPath ==
    /\ Len(CommitCalls) <= 1
    /\ Len(CommitCalls) = 1 =>
          /\ marker
          /\ DiffSucceeded /\ diffOut.stdout # <<>>
          /\ GenerationSucceeded
          /\ input.ok /\ IsYLine(input.val)
          /\ log = StepOrder
    /\ \A i, j \in 1..Len(log) : i < j => StepRank(log[i]) < StepRank(log[j])
    /\ (Done /\ log # StepOrder) => Len(CommitCalls) = 0

C1_Witness == Done /\ Len(CommitCalls) = 1 /\ log = StepOrder

(***************************************************************************)
(* C2. The commit path is selected iff the line read, trimmed and          *)
(* lower-cased, is exactly "y": "y", "Y" and " y\n" commit; "n", "",       *)
(* "yes" and "Yes " cancel; cancelling prints the notice and ends normally *)
(* without a commit invocation.                                            *)
(***************************************************************************)
CommitSelected == pc = "commit" \/ Len(CommitCalls) = 1
Cancelled ==
    /\ Done /\ exit = <<0>>
    /\ LastOut = println(MSG_CANCELED, <<>>)
    /\ Len(CommitCalls) = 0

C2_ConfirmationDecision ==
    (stdinReads = 1 /\ input.ok) =>
        /\ IsYLine(input.val) <=> CommitSelected
        /\ ~IsYLine(input.val) <=> Cancelled
        /\ input.val \in {<<121>>, <<89>>, <<32, 121, 10>>} => CommitSelected
        /\ input.val \in {<<110>>, <<>>, <<121, 101, 115>>, <<89, 101, 115, 32>>} => Cancelled

C2_Witness == input.ok /\ input.val = <<32, 121, 10>> /\ Len(CommitCalls) = 1

(***************************************************************************)
(* C3. When there is no .git marker the run invokes git zero times, makes  *)
(* no network call, does not read standard input, and its only output is   *)
(* the repository diagnostic on the error stream; then it terminates.      *)
(***************************************************************************)
C3_NotARepository ==
    ~marker =>
        /\ gitCalls = <<>> /\ netCalls = <<>> /\ stdinReads = 0
        /\ pc \in {"check_repo", "done"}
        /\ pc = "check_repo" => out = <<>>
        /\ pc = "done" => out = <<eprintln(MSG_NOT_REPO, <<>>)>> /\ Len(exit) = 1

C3_Witness == ~marker /\ Done /\ Len(out) = 1

(***************************************************************************)
(* C4. A successful diff collection with empty output prints "No changes   *)
(* detected." and terminates with no request, no network call, no prompt   *)
(* and no commit; any non-empty diff, whitespace-only included, goes on to *)
(* message generation.                                                     *)
(***************************************************************************)
C4_EmptyDiffShortCircuit ==
    DiffSucceeded =>
        /\ diffOut.stdout = <<>> =>
              /\ Done
              /\ out = <<println(MSG_NO_CHANGES, <<>>)>>
              /\ netCalls = <<>> /\ stdinReads = 0 /\ Len(CommitCalls) = 0
              /\ "generate" \notin Logged
        /\ diffOut.stdout # <<>> => (pc = "generate" \/ "generate" \in Logged)

C4_Witness == DiffSucceeded /\ diffOut.stdout = <<32>> /\ "generate" \in Logged

(***************************************************************************)
(* C5, as stated. When OPENAI_API_KEY is absent the program aborts before  *)
(* any network call for every diff the collector returns, empty or not,    *)
(* and no commit invocation occurs.                                        *)
(***************************************************************************)
Aborted == Done /\ exit = <<101>>

C5_AbortsForEveryDiff ==
    (KeyAbsent /\ DiffSucceeded /\ pc = "done") =>
        Aborted /\ netCalls = <<>> /\ Len(CommitCalls) = 0

(***************************************************************************)
(* C5, amended. When OPENAI_API_KEY is absent no run makes a network call  *)
(* or a commit invocation; the program aborts (panics with the missing-key *)
(* message, before a request exists) when the collector returned a         *)
(* non-empty diff, and for an empty diff it ends normally with "No changes *)
(* detected." without looking the credential up.                           *)
(***************************************************************************)
C5_NoNetworkWithoutKey ==
    KeyAbsent =>
        /\ netCalls = <<>> /\ Len(CommitCalls) = 0 /\ response = NoResponseYet
        /\ (DiffSucceeded /\ diffOut.stdout # <<>> /\ pc = "done") =>
              /\ Aborted
              /\ LastOut = panic_message(PANIC_NO_KEY)
              /\ stdinReads = 0
        /\ (DiffSucceeded /\ diffOut.stdout = <<>>) =>
              /\ Done /\ exit = <<0>>
              /\ out = <<println(MSG_NO_CHANGES, <<>>)>>

C5_Witness == KeyAbsent /\ Aborted /\ diffOut.stdout # <<>> /\ "generate" \in Logged

(***************************************************************************)
(* C6. A response that parses and has zero candidates makes generation     *)
(* fail with the "no response" error: the run prints the generation        *)
(* diagnostic and terminates, with no prompt and no commit invocation.     *)
(***************************************************************************)
C6_ZeroCandidates ==
    (response.kind = "ok" /\ Len(response.choices) = 0) =>
        /\ Done
        /\ LastOut = eprintln(MSG_GEN_ERR, NO_RESPONSE)
        /\ println(MSG_PROMPT, <<>>) \notin Printed
        /\ stdinReads = 0
        /\ Len(CommitCalls) = 0

C6_Witness == response = Parsed(<<>>) /\ Done /\ Len(netCalls) = 1

(***************************************************************************)
(* C7. With one or more candidates the generated message is the first      *)
(* candidate's content, unchanged and whatever the later candidates are;   *)
(* that string is the one printed and the single message argument of       *)
(* git commit -m.                                                          *)
(***************************************************************************)
C7_FirstCandidateVerbatim ==
    GenerationSucceeded =>
        /\ commit_message = response.choices[1].content
        /\ println(MSG_GENERATED, response.choices[1].content) \in Printed
        /\ \A m \in Contents \ {response.choices[1].content} :
              println(MSG_GENERATED, m) \notin Printed
        /\ \A i \in 1..Len(CommitCalls) :
              /\ CommitCalls[i].msgArgs = <<response.choices[1].content>>
              /\ CommitCalls[i].args = <<"commit", "-m">>

C7_Witness ==
    /\ Len(response.choices) = 2
    /\ response.choices[1].content = <<32, 70, 10>>
    /\ response.choices[2].content = <<121>>
    /\ Len(CommitCalls) = 1

(***************************************************************************)
(* The failure paths of a run.                                             *)
(***************************************************************************)
NotARepoFailure == ~marker /\ pc = "done"
DiffFailure == DiffFailed
CredentialFailure == "generate" \in Logged /\ env = NotPresent
GenerationFailure == response.kind \in {"send", "json"}
                     \/ (response.kind = "ok" /\ Len(response.choices) = 0)
ReadFailure == stdinReads = 1 /\ ~input.ok
CommitFailure == CommitFailed
SomeFailure ==
    \/ NotARepoFailure \/ DiffFailure \/ CredentialFailure
    \/ GenerationFailure \/ ReadFailure \/ CommitFailure

(***************************************************************************)
(* C8, as stated. Every failure path prints a diagnostic and returns from  *)
(* main, so the process ends with the successful exit code.                *)
(***************************************************************************)
C8_EveryFailureReturns ==
    SomeFailure =>
        Done /\ LastOut.stream = "stderr" /\ exit = <<0>>

(***************************************************************************)
(* C8, amended. Not a repository, a diff tool error, a transport or parse  *)
(* error, an empty candidate list and a commit failure each print their    *)
(* diagnostic on the error stream and return from main, so the process     *)
(* exits with code 0; a missing credential and a console read failure      *)
(* panic instead: the expect message goes to the error stream and the      *)
(* process exits with code 101.                                            *)
(***************************************************************************)
C8_FailuresReturnOrPanic ==
    /\ SomeFailure => Done /\ LastOut.stream = "stderr"
    /\ NotARepoFailure => exit = <<0>> /\ LastOut.fmt = MSG_NOT_REPO
    /\ DiffFailure => exit = <<0>> /\ LastOut.fmt = MSG_DIFF_ERR
    /\ GenerationFailure => exit = <<0>> /\ LastOut.fmt = MSG_GEN_ERR
    /\ CommitFailure => exit = <<0>> /\ LastOut.fmt = MSG_COMMIT_ERR
    /\ CredentialFailure => exit = <<101>> /\ LastOut.fmt = PANIC_NO_KEY
    /\ ReadFailure => exit = <<101>> /\ LastOut.fmt = PANIC_READ
    /\ (Done /\ ~SomeFailure) => exit = <<0>> /\ LastOut.stream = "stdout"

C8_Witness == CommitFailure /\ Done /\ exit = <<0>> /\ LastOut.fmt = MSG_COMMIT_ERR

(***************************************************************************)
(* C9. Diff collection tells a tool failure from an empty diff: when git   *)
(* cannot be launched or exits non-zero the error carries the launch       *)
(* description or git's standard error, the run prints the diff diagnostic *)
(* and terminates with no generation, prompt or commit; when git exits     *)
(* zero the collector returns its standard output, possibly empty, and     *)
(* never an error.                                                         *)
(***************************************************************************)
C9_ToolFailureVersusEmptyDiff ==
    diffOut.ran =>
        /\ DiffFailed =>
              /\ Done
              /\ out = <<eprintln(MSG_DIFF_ERR,
                           IF diffOut.launched THEN diffOut.stderr ELSE diffOut.oserr)>>
              /\ netCalls = <<>> /\ stdinReads = 0 /\ Len(CommitCalls) = 0
              /\ "generate" \notin Logged
        /\ DiffSucceeded =>
              /\ diff = from_utf8_lossy(diffOut.stdout)
              /\ \A o \in Printed : o.fmt # MSG_DIFF_ERR
              /\ diffOut.stdout = <<>> => out = <<println(MSG_NO_CHANGES, <<>>)>>

C9_Witness ==
    /\ diffOut.ran /\ diffOut.launched /\ diffOut.code = 128 /\ diffOut.stderr = <<102>>
    /\ Done

(***************************************************************************)
(* C10, as stated. Whenever the commit step fails, by a failed launch or   *)
(* by a non-zero exit, the error reported is the generic "failed to        *)
(* commit" message.                                                        *)
(***************************************************************************)
C10_CommitFailureIsGeneric ==
    CommitFailed => LastOut = eprintln(MSG_COMMIT_ERR, FAILED_TO_COMMIT)

(***************************************************************************)
(* C10, amended. When git commit runs and exits non-zero the error         *)
(* reported is the generic "failed to commit" message; when git cannot be  *)
(* launched the error is the operating system's description of the launch  *)
(* failure. In both cases the program prints that error, prints no success *)
(* confirmation and terminates without a second commit invocation; the     *)
(* success confirmation is printed iff the tool exited with code 0.        *)
(***************************************************************************)
C10_CommitFailureReport ==
    /\ commitOut.ran => Done /\ Len(CommitCalls) = 1 /\ Len(gitCalls) = 2
    /\ (CommitFailed /\ commitOut.launched) =>
          LastOut = eprintln(MSG_COMMIT_ERR, FAILED_TO_COMMIT)
    /\ (CommitFailed /\ ~commitOut.launched) =>
          LastOut = eprintln(MSG_COMMIT_ERR, commitOut.oserr)
    /\ println(MSG_COMMITTED, <<>>) \in Printed <=> CommitSucceeded

C10_Witness == CommitFailed /\ ~commitOut.launched /\ Done /\ Len(CommitCalls) = 1

====
